---------------------------- MODULE Spec2Model ----------------------------
(***************************************************************************)
(* Visual odometry of RatSLAM (src/src/ratslam/visual_odometry.cpp).       *)
(*                                                                         *)
(* A C++ double is modelled by an exact rational [n |-> numerator,         *)
(* d |-> denominator] in lowest terms with d > 0.  d = 0 holds the IEEE    *)
(* specials the code can produce: n = 0 is NaN (0.0 / 0), n = 1 and        *)
(* n = -1 are the infinities.  -0.0 and 0.0 are one value, as they are     *)
(* for the comparisons of the code.  Rounding is not modelled: every       *)
(* quantity is the exact sum or quotient the code asks for.                *)
(*                                                                         *)
(* C arrays start at 0, sequences at 1: element k of a C buffer is         *)
(* element k + 1 of the sequence that models it.                           *)
(***************************************************************************)
EXTENDS Integers, Sequences, FiniteSets, TLC

----------------------------------------------------------------------------
(* Exact arithmetic on the values of a double.                             *)

Abs(x) == IF x < 0 THEN -x ELSE x

Sign(x) == IF x < 0 THEN -1 ELSE IF x > 0 THEN 1 ELSE 0

RECURSIVE GCD(_, _)
GCD(a, b) == IF b = 0 THEN a ELSE GCD(b, a % b)

LCM(a, b) == (a \div GCD(a, b)) * b

NaN == [n |-> 0, d |-> 0]

\* n / d as a double, d any integer: a zero divisor gives NaN or an infinity.
Ratio(n, d) ==
    IF d = 0 THEN [n |-> Sign(n), d |-> 0]
    ELSE LET g == GCD(Abs(n), Abs(d))
         IN  [n |-> Sign(d) * (n \div g), d |-> Abs(d) \div g]

Dbl(i) == [n |-> i, d |-> 1]

IsNaN(a) == a.d = 0 /\ a.n = 0

IsFinite(a) == a.d > 0

\* a / k for an integer k (k = 0: IEEE division by zero).
DivInt(a, k) ==
    IF IsNaN(a) THEN NaN
    ELSE IF a.d = 0 THEN (IF k = 0 THEN a ELSE [n |-> a.n * Sign(k), d |-> 0])
    ELSE IF k = 0 THEN [n |-> Sign(a.n), d |-> 0]
    ELSE LET g == GCD(Abs(a.n), Abs(k))
         IN  Ratio(Sign(k) * (a.n \div g), a.d * (Abs(k) \div g))

\* a * k for an integer k.
MulInt(a, k) ==
    IF IsNaN(a) THEN NaN
    ELSE IF a.d = 0 THEN (IF k = 0 THEN NaN ELSE [n |-> a.n * Sign(k), d |-> 0])
    ELSE LET g == GCD(Abs(k), a.d)
         IN  Ratio(a.n * (k \div g), a.d \div g)

\* a < b of C++: false when either side is NaN.
Lt(a, b) ==
    /\ ~IsNaN(a)
    /\ ~IsNaN(b)
    /\ IF a.d = 0 \/ b.d = 0 THEN
            \/ a.d = 0 /\ a.n < 0 /\ ~(b.d = 0 /\ b.n < 0)
            \/ b.d = 0 /\ b.n > 0 /\ ~(a.d = 0 /\ a.n > 0)
       ELSE IF b.d = 1 THEN (a.n \div a.d) < b.n
       ELSE LET g == GCD(a.d, b.d)
            IN  a.n * (b.d \div g) < b.n * (a.d \div g)

Gt(a, b) == Lt(b, a)

----------------------------------------------------------------------------
(* VisualOdometry::visual_odo, lines 114-168.                              *)

\* int slen = 40: the number of offsets each scan evaluates.
slen == 40

\* unsigned short width receives vtrans_profile.size().
UShort(n) == n % 65536

\* double mindiff = 1e6.
InitialMindiff == Dbl(1000000)

RECURSIVE DenOf(_, _, _)
\* A common denominator of the finite entries of seq[lo..hi].
DenOf(seq, lo, hi) ==
    IF lo > hi THEN 1
    ELSE IF lo = hi THEN (IF IsFinite(seq[lo]) THEN seq[lo].d ELSE 1)
    ELSE LCM(DenOf(seq, lo, (lo + hi) \div 2), DenOf(seq, (lo + hi) \div 2 + 1, hi))

\* The entries of seq as numerators over the denominator D.
Numerators(seq, D) ==
    [i \in DOMAIN seq |-> IF IsFinite(seq[i]) THEN seq[i].n * (D \div seq[i].d) ELSE 0]

NonFinite(seq) == {i \in DOMAIN seq : ~IsFinite(seq[i])}

RECURSIVE SumAbsSigned(_, _, _, _, _, _)
\* The sum of the differences with their signs, fabs left out.
SumAbsSigned(dn, on, da, oa, lo, hi) ==
    IF lo > hi THEN 0
    ELSE IF lo = hi THEN dn[lo + 1 + da] - on[lo + 1 + oa]
    ELSE SumAbsSigned(dn, on, da, oa, lo, (lo + hi) \div 2)
         + SumAbsSigned(dn, on, da, oa, (lo + hi) \div 2 + 1, hi)

RECURSIVE SumAbs(_, _, _, _, _, _)
\* for (k = lo; k <= hi; k++) cdiff += fabs(data[k + da] - olddata[k + oa]),
\* on numerators.  The sum is exact, so it is taken by halves, which keeps
\* the evaluation shallow.
SumAbs(dn, on, da, oa, lo, hi) ==
    IF lo > hi THEN 0
    ELSE IF lo = hi THEN Abs(dn[lo + 1 + da] - on[lo + 1 + oa])
    ELSE IF lo + 1 = hi THEN Abs(dn[lo + 1 + da] - on[lo + 1 + oa])
                             + Abs(dn[hi + 1 + da] - on[hi + 1 + oa])
    ELSE SumAbs(dn, on, da, oa, lo, (lo + hi) \div 2)
         + SumAbs(dn, on, da, oa, (lo + hi) \div 2 + 1, hi)

\* cdiff after the division by (cwl - offset).  p holds the two profiles as
\* numerators over p.D and the places of their non-finite entries; a window
\* with such an entry gives a cdiff that is not finite and never compares
\* below mindiff, held here as NaN.
Candidate(p, da, oa, offset) ==
    LET cnt == p.cwl - offset
    IN  IF /\ p.dnan \cup p.onan # {}
           /\ \E c \in 1..cnt : (c + da) \in p.dnan \/ (c + oa) \in p.onan
        THEN NaN
        ELSE Ratio(SumAbs(p.dn, p.on, da, oa, 0, cnt - 1), p.D * cnt)

\* The comparison as cdiff <= mindiff.
BetterNotStrict(cdiff, mindiff) == ~IsNaN(cdiff) /\ ~IsNaN(mindiff) /\ ~Lt(mindiff, cdiff)

\* if (cdiff < mindiff)
Better(cdiff, mindiff) == Lt(cdiff, mindiff)

\* One pass of a scan loop body: cdiff is compared with mindiff and, when
\* it is below, recorded with the signed offset.
Compare(cdiff, signed_offset, best) ==
    IF Better(cdiff, best.mindiff)
    THEN [mindiff |-> cdiff, minoffset |-> signed_offset]
    ELSE best

RECURSIVE ScanNegative(_, _, _, _)
\* The first loop, for the offsets lo..hi in ascending order: data[k] against
\* olddata[k + offset], minoffset = -offset.  The range is walked by halves,
\* the lower half first; the test on the lower half's result always holds
\* and makes TLC finish that half before it enters the upper one, which
\* keeps the evaluation shallow.
ScanNegative(p, lo, hi, best) ==
    IF lo > hi THEN best
    ELSE IF lo = hi THEN Compare(Candidate(p, 0, lo, lo), -lo, best)
    ELSE LET lower == ScanNegative(p, lo, (lo + hi) \div 2, best)
         IN  IF lower.minoffset \in Int
             THEN ScanNegative(p, (lo + hi) \div 2 + 1, hi, lower)
             ELSE lower

RECURSIVE ScanPositive(_, _, _, _)
\* The second loop: data[k + offset] against olddata[k], minoffset = offset.
ScanPositive(p, lo, hi, best) ==
    IF lo > hi THEN best
    ELSE IF lo = hi THEN Compare(Candidate(p, lo, 0, lo), lo, best)
    ELSE LET lower == ScanPositive(p, lo, (lo + hi) \div 2, best)
         IN  IF lower.minoffset \in Int
             THEN ScanPositive(p, (lo + hi) \div 2 + 1, hi, lower)
             ELSE lower

Prepared(data, width, olddata) ==
    LET D == LCM(DenOf(data, 1, Len(data)), DenOf(olddata, 1, Len(olddata)))
    IN  [cwl |-> width, D |-> D,
         dn |-> Numerators(data, D), on |-> Numerators(olddata, D),
         dnan |-> NonFinite(data), onan |-> NonFinite(olddata)]

\* Both scans: the final mindiff and minoffset.  The two tests always hold;
\* they make TLC work out the common denominator before the scans, and the
\* first scan before the second.
Search(data, width, olddata) ==
    LET p == Prepared(data, width, olddata)
        negative == ScanNegative(p, 0, slen - 1,
                                 [mindiff |-> InitialMindiff, minoffset |-> 0])
    IN  IF p.D \in Int /\ negative.minoffset \in Int
        THEN ScanPositive(p, 0, slen - 1, negative)
        ELSE negative

\* The previous profile left as it was.
CopyBackSkipped(data, width, olddata) == olddata

\* for (i = 0; i < width; i++) olddata[i] = data[i]
CopyBack(data, width, olddata) ==
    [i \in DOMAIN olddata |-> IF i <= width THEN data[i] ELSE olddata[i]]

\* The speed passed through without the ceiling.
ClampMissing(v, vmax) == v

\* if (*vtrans_ms > VTRANS_MAX) *vtrans_ms = VTRANS_MAX
Clamp(v, vmax) == IF Gt(v, vmax) THEN vmax ELSE v

\* *vrot_rads = minoffset * CAMERA_FOV_DEG / IMAGE_WIDTH * CAMERA_HZ * M_PI / 180.0,
\* held as the factor of M_PI / 180.0.
RotationRate(minoffset, fov, image_width, hz) ==
    MulInt(Ratio(minoffset * fov, image_width), hz)

\* *vtrans_ms = mindiff * VTRANS_SCALING, then the clamp.
TranslationSpeed(mindiff, scaling, vmax) == Clamp(MulInt(mindiff, scaling), Dbl(vmax))

\* One call of visual_odo: the locals at its end, the rewritten olddata and
\* the two values written through the output pointers.
visual_odo(data, width, olddata, cal) ==
    LET w == Search(data, width, olddata)
    IN  [mindiff   |-> w.mindiff,
         minoffset |-> w.minoffset,
         olddata   |-> CopyBack(data, width, olddata),
         vrot_rads |-> RotationRate(w.minoffset, cal.fov, cal.image_width, cal.hz),
         vtrans_ms |-> TranslationSpeed(w.mindiff, cal.scaling, cal.vmax)]

----------------------------------------------------------------------------
(* VisualOdometry::convert_view_to_view_template, lines 170-226.           *)

\* view_rgb[pos]; a read past the end of the caller's buffer finds the byte
\* `beyond`, whatever lies there.
ReadByte(view_rgb, pos, beyond) ==
    IF pos + 1 \in DOMAIN view_rgb THEN view_rgb[pos + 1] ELSE beyond

\* What one pixel adds: view_rgb[pos], or the three samples at pos * 3.
Sample(view_rgb, grayscale, pos, beyond) ==
    IF grayscale THEN ReadByte(view_rgb, pos, beyond)
    ELSE ReadByte(view_rgb, pos * 3, beyond)
         + ReadByte(view_rgb, pos * 3 + 1, beyond)
         + ReadByte(view_rgb, pos * 3 + 2, beyond)

RECURSIVE SumColumn(_, _, _, _, _, _, _)
\* for (y = y_block; y < y_block + cnt; y++) of one column x.
SumColumn(view_rgb, grayscale, image_width, beyond, x, y_block, cnt) ==
    IF cnt <= 0 THEN 0
    ELSE SumColumn(view_rgb, grayscale, image_width, beyond, x, y_block, cnt - 1)
         + Sample(view_rgb, grayscale, x + (y_block + cnt - 1) * image_width, beyond)

RECURSIVE SumBlock(_, _, _, _, _, _, _, _)
\* for (x = x_block; x < x_block + cnt; x++) of one block.
SumBlock(view_rgb, grayscale, image_width, beyond, x_block, cnt, y_block, y_block_size) ==
    IF cnt <= 0 THEN 0
    ELSE SumBlock(view_rgb, grayscale, image_width, beyond, x_block, cnt - 1,
                  y_block, y_block_size)
         + SumColumn(view_rgb, grayscale, image_width, beyond, x_block + cnt - 1,
                     y_block, y_block_size)

\* The divisor 255.0 for both layouts.
FullScaleGreyOnly(grayscale) == 255

\* The first divisor of an entry: 255.0, or 255.0 * 3.0.
FullScale(grayscale) == IF grayscale THEN 255 ELSE 255 * 3

\* current_view after the call.  TEMPLATE_Y_SIZE is 1, so there is one
\* y_block, at Y_RANGE_MIN.  The entries from TEMPLATE_X_SIZE on are not
\* written.  With TEMPLATE_X_SIZE = 0 no loop body runs, whatever the
\* quotient x_block_size came out as.
convert_view_to_view_template(current_view, view_rgb, grayscale, r, image_width, beyond) ==
    LET TEMPLATE_Y_SIZE == 1
        TEMPLATE_X_SIZE == r.x_max - r.x_min
        sub_range_x  == r.x_max - r.x_min
        sub_range_y  == r.y_max - r.y_min
        x_block_size == IF TEMPLATE_X_SIZE = 0 THEN 0 ELSE sub_range_x \div TEMPLATE_X_SIZE
        y_block_size == sub_range_y \div TEMPLATE_Y_SIZE
        entry(x_block_count) ==
            LET x_block == r.x_min + x_block_count * x_block_size
                sum == SumBlock(view_rgb, grayscale, image_width, beyond,
                                x_block, x_block_size, r.y_min, y_block_size)
            IN  DivInt(DivInt(Dbl(sum), FullScale(grayscale)), x_block_size * y_block_size)
    IN  [i \in DOMAIN current_view |->
            IF i <= TEMPLATE_X_SIZE THEN entry(i - 1) ELSE current_view[i]]

----------------------------------------------------------------------------
(* The state of a VisualOdometry and of the on_image call in progress.     *)

VARIABLES
    VTRANS_IMAGE_X_MIN, VTRANS_IMAGE_X_MAX, VTRANS_IMAGE_Y_MIN, VTRANS_IMAGE_Y_MAX,
    VROT_IMAGE_X_MIN, VROT_IMAGE_X_MAX, VROT_IMAGE_Y_MIN, VROT_IMAGE_Y_MAX,
    CAMERA_FOV_DEG, CAMERA_HZ, VTRANS_SCALING, VTRANS_MAX,
    IMAGE_WIDTH, IMAGE_HEIGHT,
    vtrans_profile, vtrans_prev_profile, vrot_profile, vrot_prev_profile,
    first,
    pc,          \* where the call in progress stands; "idle" between calls
    view,        \* on_image's arguments: [data, greyscale, beyond]
    out,         \* [vtrans_ms, vrot_rads]: the caller's slots, and dummy
    odo,         \* the latest visual_odo call: its arguments and final locals
    args,        \* the constructor's arguments, as passed
    extracted,   \* the profiles each call extracted, in call order
    frames       \* the calls of on_image that returned

regions == <<VTRANS_IMAGE_X_MIN, VTRANS_IMAGE_X_MAX, VTRANS_IMAGE_Y_MIN, VTRANS_IMAGE_Y_MAX,
             VROT_IMAGE_X_MIN, VROT_IMAGE_X_MAX, VROT_IMAGE_Y_MIN, VROT_IMAGE_Y_MAX>>

calibration == <<CAMERA_FOV_DEG, CAMERA_HZ, VTRANS_SCALING, VTRANS_MAX>>

image_size == <<IMAGE_WIDTH, IMAGE_HEIGHT>>

profiles == <<vtrans_profile, vtrans_prev_profile, vrot_profile, vrot_prev_profile>>

vars == <<regions, calibration, image_size, profiles, first, pc, view, out, odo,
          args, extracted, frames>>

\* A slot nothing has been written to.
Unset == [n |-> 0, d |-> -1]

NoCall == [data |-> <<>>, olddata |-> <<>>, mindiff |-> Unset, minoffset |-> 0]

NoView == [data |-> <<>>, greyscale |-> TRUE, beyond |-> 0]

VtransRegion ==
    [x_min |-> VTRANS_IMAGE_X_MIN, x_max |-> VTRANS_IMAGE_X_MAX,
     y_min |-> VTRANS_IMAGE_Y_MIN, y_max |-> VTRANS_IMAGE_Y_MAX]

VrotRegion ==
    [x_min |-> VROT_IMAGE_X_MIN, x_max |-> VROT_IMAGE_X_MAX,
     y_min |-> VROT_IMAGE_Y_MIN, y_max |-> VROT_IMAGE_Y_MAX]

Calibration ==
    [fov |-> CAMERA_FOV_DEG, hz |-> CAMERA_HZ, scaling |-> VTRANS_SCALING,
     vmax |-> VTRANS_MAX, image_width |-> IMAGE_WIDTH]

Zeros(n) == [i \in 1..n |-> Dbl(0)]

----------------------------------------------------------------------------
(* The frames of the stream and the constructor's arguments.               *)

\* Width and height of the frames handed to on_image.
ImgW == 42

ImgH == 2

\* The calls of on_image a behaviour makes.
MaxFrames == 2

\* The scenes the camera sees: a black frame, a vertical edge, and the same
\* edge three columns to the right.
Scenes == 1..3

Brightness(scene, x) ==
    CASE scene = 1 -> 0
      [] scene = 2 -> IF x >= 2 THEN 255 ELSE 0
      [] scene = 3 -> IF x >= 5 THEN 255 ELSE 0

\* The sample of channel ch of pixel (x, y): rows and channels differ.
Shade(scene, x, y, ch) ==
    IF (y + ch) % 2 = 0 THEN Brightness(scene, x) ELSE Brightness(scene, x) \div 5

\* The buffer of a frame: row-major, one byte per pixel or three.
Image(scene, greyscale) ==
    IF greyscale
    THEN [i \in 1..(ImgW * ImgH) |-> Shade(scene, (i - 1) % ImgW, (i - 1) \div ImgW, 0)]
    ELSE [i \in 1..(3 * ImgW * ImgH) |->
            Shade(scene, ((i - 1) \div 3) % ImgW, ((i - 1) \div 3) \div ImgW, (i - 1) % 3)]

\* The bytes a read past the end of the buffer may find.
BeyondBytes == {0, 255}

Args(txmin, txmax, tymin, tymax, rxmin, rxmax, rymin, rymax) ==
    [vtrans_image_x_min |-> txmin, vtrans_image_x_max |-> txmax,
     vtrans_image_y_min |-> tymin, vtrans_image_y_max |-> tymax,
     vrot_image_x_min |-> rxmin, vrot_image_x_max |-> rxmax,
     vrot_image_y_min |-> rymin, vrot_image_y_max |-> rymax,
     camera_fov_deg |-> 50, camera_hz |-> 10, vtrans_scaling |-> 100, vtrans_max |-> 20]

\* The arguments instances are built with: explicit regions (the full frame,
\* narrow ones) and the max bounds -1 and 0.
CtorArgs ==
    { Args(0, ImgW, 0, ImgH, 0, ImgW, 0, ImgH),
      Args(2, 7, 0, 1, 0, 3, 1, 2),
      Args(0, -1, 0, -1, 0, 3, 1, 2),
      Args(2, 7, 0, 1, 0, -1, 0, -1),
      Args(2, 7, 0, 1, 0, 0, 0, ImgH),
      Args(0, 0, 0, ImgH, 0, 3, 1, 2),
      Args(2, 7, 0, 0, 0, 3, 0, 0),
      Args(2, 0, 0, ImgH, 0, ImgW, 0, ImgH) }

\* IMAGE_WIDTH and IMAGE_HEIGHT are read by the constructor and first written
\* by on_image: what the constructor finds there is any pair of values.
Uninitialized == {<<0, 0>>, <<ImgW, ImgH>>, <<ImgW + 1, ImgH + 1>>}

\* if (max < 0) MAX = IMAGE_...; else MAX = max
ResolveMax(max, image_dim) == IF max < 0 THEN image_dim ELSE max

\* The members after the constructor's assignments, and whether the four
\* resize calls return: resize of a negative int, converted to size_t,
\* throws std::length_error and no instance exists.
Constructor(a, image_width, image_height) ==
    LET txmax == ResolveMax(a.vtrans_image_x_max, image_width)
        tymax == ResolveMax(a.vtrans_image_y_max, image_height)
        rxmax == ResolveMax(a.vrot_image_x_max, image_width)
        rymax == ResolveMax(a.vrot_image_y_max, image_height)
    IN  [VTRANS_IMAGE_X_MIN |-> a.vtrans_image_x_min, VTRANS_IMAGE_X_MAX |-> txmax,
         VTRANS_IMAGE_Y_MIN |-> a.vtrans_image_y_min, VTRANS_IMAGE_Y_MAX |-> tymax,
         VROT_IMAGE_X_MIN |-> a.vrot_image_x_min, VROT_IMAGE_X_MAX |-> rxmax,
         VROT_IMAGE_Y_MIN |-> a.vrot_image_y_min, VROT_IMAGE_Y_MAX |-> rymax,
         vtrans_size |-> txmax - a.vtrans_image_x_min,
         vrot_size |-> rxmax - a.vrot_image_x_min,
         resized |-> txmax - a.vtrans_image_x_min >= 0 /\ rxmax - a.vrot_image_x_min >= 0]

\* The state after construction.
Init ==
    \E a \in CtorArgs, u \in Uninitialized :
        LET w == u[1]
            h == u[2]
            c == Constructor(a, w, h)
        IN  /\ c.resized
            /\ VTRANS_IMAGE_X_MIN = c.VTRANS_IMAGE_X_MIN
            /\ VTRANS_IMAGE_X_MAX = c.VTRANS_IMAGE_X_MAX
            /\ VTRANS_IMAGE_Y_MIN = c.VTRANS_IMAGE_Y_MIN
            /\ VTRANS_IMAGE_Y_MAX = c.VTRANS_IMAGE_Y_MAX
            /\ VROT_IMAGE_X_MIN = c.VROT_IMAGE_X_MIN
            /\ VROT_IMAGE_X_MAX = c.VROT_IMAGE_X_MAX
            /\ VROT_IMAGE_Y_MIN = c.VROT_IMAGE_Y_MIN
            /\ VROT_IMAGE_Y_MAX = c.VROT_IMAGE_Y_MAX
            /\ CAMERA_FOV_DEG = a.camera_fov_deg
            /\ CAMERA_HZ = a.camera_hz
            /\ VTRANS_SCALING = a.vtrans_scaling
            /\ VTRANS_MAX = a.vtrans_max
            /\ IMAGE_WIDTH = w
            /\ IMAGE_HEIGHT = h
            /\ vtrans_profile = Zeros(c.vtrans_size)
            /\ vtrans_prev_profile = Zeros(c.vtrans_size)
            /\ vrot_profile = Zeros(c.vrot_size)
            /\ vrot_prev_profile = Zeros(c.vrot_size)
            /\ first = TRUE
            /\ pc = "idle"
            /\ view = NoView
            /\ out = [vtrans_ms |-> Unset, vrot_rads |-> Unset, dummy |-> Unset]
            /\ odo = NoCall
            /\ args = a
            /\ extracted = [vtrans |-> <<>>, vrot |-> <<>>]
            /\ frames = 0

----------------------------------------------------------------------------
(* VisualOdometry::on_image, lines 84-112, statement by statement.         *)

\* Whether a region reads past the end of a frame's buffer.
ReadsBeyond(r) ==
    /\ r.x_max > r.x_min
    /\ r.y_max > r.y_min
    /\ (r.x_max - 1) + (r.y_max - 1) * ImgW >= ImgW * ImgH

\* if (first) { prev = current for both regions }
Seed(is_first, prev, current) == IF is_first THEN current ELSE prev

\* Lines 88-101: the arguments arrive, the frame's size is latched and, on
\* the first call, the previous profiles are seeded from the current ones.
Enter(scene, greyscale, beyond) ==
    /\ pc = "idle"
    /\ frames < MaxFrames
    /\ beyond = 0 \/ ReadsBeyond(VtransRegion) \/ ReadsBeyond(VrotRegion)
    /\ IMAGE_WIDTH' = ImgW
    /\ IMAGE_HEIGHT' = ImgH
    /\ vtrans_prev_profile' = Seed(first, vtrans_prev_profile, vtrans_profile)
    /\ vrot_prev_profile' = Seed(first, vrot_prev_profile, vrot_profile)
    /\ first' = FALSE
    /\ view' = [data |-> Image(scene, greyscale), greyscale |-> greyscale, beyond |-> beyond]
    /\ out' = [out EXCEPT !.dummy = Unset]
    /\ pc' = "convert_vtrans"
    /\ UNCHANGED <<regions, calibration, vtrans_profile, vrot_profile, odo, args,
                   extracted, frames>>

\* Lines 103-105.
ConvertVtrans ==
    /\ pc = "convert_vtrans"
    /\ vtrans_profile' = convert_view_to_view_template(vtrans_profile, view.data,
                             view.greyscale, VtransRegion, IMAGE_WIDTH, view.beyond)
    /\ extracted' = [extracted EXCEPT !.vtrans = Append(@, vtrans_profile')]
    /\ pc' = "odo_vtrans"
    /\ UNCHANGED <<regions, calibration, image_size, vtrans_prev_profile, vrot_profile,
                   vrot_prev_profile, first, view, out, odo, args, frames>>

\* Line 106: vtrans_ms is the caller's slot, vrot_rads is &dummy.
StoreVtrans(o, r) == [o EXCEPT !.vtrans_ms = r.vtrans_ms, !.dummy = r.vrot_rads]

OdoVtrans ==
    /\ pc = "odo_vtrans"
    /\ \E r \in {visual_odo(vtrans_profile, UShort(Len(vtrans_profile)),
                           vtrans_prev_profile, Calibration)} :
           /\ vtrans_prev_profile' = r.olddata
           /\ out' = StoreVtrans(out, r)
           /\ odo' = [data |-> vtrans_profile, olddata |-> vtrans_prev_profile,
                      mindiff |-> r.mindiff, minoffset |-> r.minoffset]
    /\ pc' = "convert_vrot"
    /\ UNCHANGED <<regions, calibration, image_size, vtrans_profile, vrot_profile,
                   vrot_prev_profile, first, view, args, extracted, frames>>

\* Lines 108-110.
ConvertVrot ==
    /\ pc = "convert_vrot"
    /\ vrot_profile' = convert_view_to_view_template(vrot_profile, view.data,
                           view.greyscale, VrotRegion, IMAGE_WIDTH, view.beyond)
    /\ extracted' = [extracted EXCEPT !.vrot = Append(@, vrot_profile')]
    /\ pc' = "odo_vrot"
    /\ UNCHANGED <<regions, calibration, image_size, vtrans_profile, vtrans_prev_profile,
                   vrot_prev_profile, first, view, out, odo, args, frames>>

\* Both results of the rotation pass written to the caller's slots.
StoreVrotBoth(o, r) == [o EXCEPT !.vtrans_ms = r.vtrans_ms, !.vrot_rads = r.vrot_rads]

\* Line 111: vtrans_ms is &dummy, vrot_rads is the caller's slot.
StoreVrot(o, r) == [o EXCEPT !.dummy = r.vtrans_ms, !.vrot_rads = r.vrot_rads]

\* Line 111, and the return of on_image.
OdoVrot ==
    /\ pc = "odo_vrot"
    /\ \E r \in {visual_odo(vrot_profile, UShort(Len(vrot_profile)),
                           vrot_prev_profile, Calibration)} :
           /\ vrot_prev_profile' = r.olddata
           /\ out' = StoreVrot(out, r)
           /\ odo' = [data |-> vrot_profile, olddata |-> vrot_prev_profile,
                      mindiff |-> r.mindiff, minoffset |-> r.minoffset]
    /\ pc' = "idle"
    /\ view' = NoView
    /\ frames' = frames + 1
    /\ UNCHANGED <<regions, calibration, image_size, vtrans_profile, vtrans_prev_profile,
                   vrot_profile, first, args, extracted>>

\* Lines 175 and 184: sub_range_x / TEMPLATE_X_SIZE with TEMPLATE_X_SIZE = 0
\* is an integer division by zero.  Where the division traps the process
\* ends here; where it yields a quotient the call goes on (ConvertVtrans,
\* ConvertVrot).
DivideByZero ==
    /\ \/ pc = "convert_vtrans" /\ VTRANS_IMAGE_X_MAX - VTRANS_IMAGE_X_MIN = 0
       \/ pc = "convert_vrot" /\ VROT_IMAGE_X_MAX - VROT_IMAGE_X_MIN = 0
    /\ pc' = "trapped"
    /\ UNCHANGED <<regions, calibration, image_size, profiles, first, view, out, odo,
                   args, extracted, frames>>

OnImage == \E scene \in Scenes, greyscale \in BOOLEAN, beyond \in BeyondBytes :
               Enter(scene, greyscale, beyond)

Next ==
    \/ OnImage
    \/ ConvertVtrans
    \/ OdoVtrans
    \/ ConvertVrot
    \/ OdoVrot
    \/ DivideByZero

Spec == Init /\ [][Next]_vars

----------------------------------------------------------------------------
(* visual_odo on its own: a caller hands it two profiles of one length.    *)

\* The profile width of the scenario of the specification.
ScenarioWidth == 80

Lengths == {1, 3, slen - 1, slen, slen + 1, ScenarioWidth}

\* Previous profiles: a constant one, stripes of period seven, a ramp and an
\* edge.  i is the C index of the entry.
Pattern(kind, i, len) ==
    CASE kind = 1 -> Ratio(1, 2)
      [] kind = 2 -> IF i % 7 = 0 THEN Dbl(1) ELSE Dbl(0)
      [] kind = 3 -> Ratio(i + 1, len)
      [] kind = 4 -> IF i >= 4 THEN Dbl(1) ELSE Dbl(0)

Patterns == 1..4

Shifts == {0, 1, 2, 3, slen - 1}

Fills == {Dbl(0), Ratio(1, 2), Dbl(1)}

\* old moved k columns to the left (the last k entries are fill) or to the
\* right (the first k entries are fill).
Shifted(old, k, left, fill) ==
    [i \in DOMAIN old |->
        IF left THEN (IF i + k <= Len(old) THEN old[i + k] ELSE fill)
        ELSE (IF i - k >= 1 THEN old[i - k] ELSE fill)]

OdoInputs ==
    { [olddata |-> [i \in 1..len |-> Pattern(kind, i - 1, len)],
       data |-> Shifted([i \in 1..len |-> Pattern(kind, i - 1, len)], k, left, fill)] :
        kind \in Patterns, len \in Lengths, k \in Shifts, left \in BOOLEAN, fill \in Fills }

InitOdo ==
    \E in \in OdoInputs :
        /\ VTRANS_IMAGE_X_MIN = 0 /\ VTRANS_IMAGE_X_MAX = Len(in.data)
        /\ VTRANS_IMAGE_Y_MIN = 0 /\ VTRANS_IMAGE_Y_MAX = 1
        /\ VROT_IMAGE_X_MIN = 0 /\ VROT_IMAGE_X_MAX = Len(in.data)
        /\ VROT_IMAGE_Y_MIN = 0 /\ VROT_IMAGE_Y_MAX = 1
        /\ CAMERA_FOV_DEG = 50 /\ CAMERA_HZ = 10
        /\ VTRANS_SCALING = 100 /\ VTRANS_MAX = 20
        /\ IMAGE_WIDTH = Len(in.data) /\ IMAGE_HEIGHT = 1
        /\ vtrans_profile = in.data
        /\ vtrans_prev_profile = in.olddata
        /\ vrot_profile = <<>>
        /\ vrot_prev_profile = <<>>
        /\ first = FALSE
        /\ pc = "odo_call"
        /\ view = NoView
        /\ out = [vtrans_ms |-> Unset, vrot_rads |-> Unset, dummy |-> Unset]
        /\ odo = NoCall
        /\ args = Args(0, Len(in.data), 0, 1, 0, Len(in.data), 0, 1)
        /\ extracted = [vtrans |-> <<>>, vrot |-> <<>>]
        /\ frames = 0

\* visual_odo(&vtrans_profile[0], size, &vtrans_prev_profile[0], &vtrans_ms, &vrot_rads)
CallVisualOdo ==
    /\ pc = "odo_call"
    /\ \E r \in {visual_odo(vtrans_profile, UShort(Len(vtrans_profile)),
                           vtrans_prev_profile, Calibration)} :
           /\ vtrans_prev_profile' = r.olddata
           /\ out' = [out EXCEPT !.vtrans_ms = r.vtrans_ms, !.vrot_rads = r.vrot_rads]
           /\ odo' = [data |-> vtrans_profile, olddata |-> vtrans_prev_profile,
                      mindiff |-> r.mindiff, minoffset |-> r.minoffset]
    /\ pc' = "odo_returned"
    /\ UNCHANGED <<regions, calibration, image_size, vtrans_profile, vrot_profile,
                   vrot_prev_profile, first, view, args, extracted, frames>>

NextOdo == CallVisualOdo

SpecOdo == InitOdo /\ [][NextOdo]_vars

----------------------------------------------------------------------------
(* convert_view_to_view_template on its own: a caller hands it a frame, a  *)
(* region inside the frame and a buffer.                                   *)

\* Width and height of these frames.
ViewW == 3

ViewH == 2

Bytes == <<0, 1, 127, 128, 254, 255>>

Textures == 1..6

\* Frames: all 0, all 255, and four textures over Bytes.
Texel(texture, x, y, ch) ==
    CASE texture = 1 -> 0
      [] texture = 2 -> 255
      [] OTHER -> Bytes[((texture * (x + 1) + 3 * y + 2 * ch * (x + y + 1)) % Len(Bytes)) + 1]

Frame(texture, greyscale) ==
    IF greyscale
    THEN [i \in 1..(ViewW * ViewH) |-> Texel(texture, (i - 1) % ViewW, (i - 1) \div ViewW, 0)]
    ELSE [i \in 1..(3 * ViewW * ViewH) |->
            Texel(texture, ((i - 1) \div 3) % ViewW, ((i - 1) \div 3) \div ViewW, (i - 1) % 3)]

\* The regions inside a frame: x_min < x_max and y_min < y_max.
InnerRegions ==
    { [x_min |-> x0, x_max |-> x1, y_min |-> y0, y_max |-> y1] :
        x0 \in 0..(ViewW - 1), x1 \in 1..ViewW, y0 \in 0..(ViewH - 1), y1 \in 1..ViewH }

\* What the caller's buffer holds before the call.
Stale == Dbl(7)

InitView ==
    \E r \in InnerRegions, texture \in Textures, greyscale \in BOOLEAN :
        /\ r.x_min < r.x_max
        /\ r.y_min < r.y_max
        /\ VTRANS_IMAGE_X_MIN = r.x_min /\ VTRANS_IMAGE_X_MAX = r.x_max
        /\ VTRANS_IMAGE_Y_MIN = r.y_min /\ VTRANS_IMAGE_Y_MAX = r.y_max
        /\ VROT_IMAGE_X_MIN = r.x_min /\ VROT_IMAGE_X_MAX = r.x_max
        /\ VROT_IMAGE_Y_MIN = r.y_min /\ VROT_IMAGE_Y_MAX = r.y_max
        /\ CAMERA_FOV_DEG = 50 /\ CAMERA_HZ = 10
        /\ VTRANS_SCALING = 100 /\ VTRANS_MAX = 20
        /\ IMAGE_WIDTH = ViewW /\ IMAGE_HEIGHT = ViewH
        /\ vtrans_profile = [i \in 1..(r.x_max - r.x_min + 1) |-> Stale]
        /\ vtrans_prev_profile = <<>>
        /\ vrot_profile = <<>>
        /\ vrot_prev_profile = <<>>
        /\ first = FALSE
        /\ pc = "view_call"
        /\ view = [data |-> Frame(texture, greyscale), greyscale |-> greyscale, beyond |-> 0]
        /\ out = [vtrans_ms |-> Unset, vrot_rads |-> Unset, dummy |-> Unset]
        /\ odo = NoCall
        /\ args = Args(r.x_min, r.x_max, r.y_min, r.y_max, r.x_min, r.x_max, r.y_min, r.y_max)
        /\ extracted = [vtrans |-> <<>>, vrot |-> <<>>]
        /\ frames = 0

\* convert_view_to_view_template(&vtrans_profile[0], data, greyscale, region)
CallConvert ==
    /\ pc = "view_call"
    /\ vtrans_profile' = convert_view_to_view_template(vtrans_profile, view.data,
                             view.greyscale, VtransRegion, IMAGE_WIDTH, view.beyond)
    /\ pc' = "view_returned"
    /\ UNCHANGED <<regions, calibration, image_size, vtrans_prev_profile, vrot_profile,
                   vrot_prev_profile, first, view, out, odo, args, extracted, frames>>

NextView == CallConvert

SpecView == InitView /\ [][NextView]_vars

----------------------------------------------------------------------------
(* Properties of on_image (Spec).                                          *)

\* A region that lies inside the frames: the precondition of on_image.
InFrame(r) ==
    /\ 0 <= r.x_min /\ r.x_min < r.x_max /\ r.x_max <= ImgW
    /\ 0 <= r.y_min /\ r.y_min < r.y_max /\ r.y_max <= ImgH

ValidRegions == InFrame(VtransRegion) /\ InFrame(VrotRegion)

Le(a, b) == ~IsNaN(a) /\ ~IsNaN(b) /\ ~Gt(a, b)

Last(seq) == seq[Len(seq)]

\* C1: when the first call of on_image on an instance with valid regions has
\* returned, the translation speed and the rotation rate it wrote are both
\* exactly 0, whatever the frame showed.
C1_FirstFrameZeroMotion ==
    (pc = "idle" /\ frames = 1 /\ ValidRegions)
        => (out.vtrans_ms = Dbl(0) /\ out.vrot_rads = Dbl(0))

\* C2: a translation speed written to the caller's slot is never above
\* VTRANS_MAX.
C2_SpeedAtMostCeiling ==
    out.vtrans_ms # Unset => Le(out.vtrans_ms, Dbl(VTRANS_MAX))

\* The translation pass has just written a speed that the clamp cut down.
C2_Witness ==
    /\ pc = "convert_vrot"
    /\ Gt(MulInt(odo.mindiff, VTRANS_SCALING), Dbl(VTRANS_MAX))
    /\ out.vtrans_ms = Dbl(VTRANS_MAX)

\* C6: once the instance has seen a frame, every max bound passed as 0 or as
\* a negative value stands resolved to the frame's width (x) or height (y),
\* every positive one stands as passed, and the profile buffers have the
\* width of the resolved regions.
C6_MaxBoundsResolved ==
    LET Resolved(passed, member, dim) ==
            IF passed <= 0 THEN member = dim ELSE member = passed
    IN  ~first =>
            /\ Resolved(args.vtrans_image_x_max, VTRANS_IMAGE_X_MAX, IMAGE_WIDTH)
            /\ Resolved(args.vtrans_image_y_max, VTRANS_IMAGE_Y_MAX, IMAGE_HEIGHT)
            /\ Resolved(args.vrot_image_x_max, VROT_IMAGE_X_MAX, IMAGE_WIDTH)
            /\ Resolved(args.vrot_image_y_max, VROT_IMAGE_Y_MAX, IMAGE_HEIGHT)
            /\ Len(vtrans_profile) = VTRANS_IMAGE_X_MAX - VTRANS_IMAGE_X_MIN
            /\ Len(vrot_profile) = VROT_IMAGE_X_MAX - VROT_IMAGE_X_MIN

\* C7: when a call of on_image has returned, the previous profile of each
\* region is the profile that call extracted; the visual_odo calls of the
\* n-th call, n >= 2, compared the profile of frame n with the profile of
\* frame n - 1; and after the first call the seeding branch is closed.
C7_PreviousIsLastFrame ==
    /\ (pc = "idle" /\ frames >= 1) =>
            /\ first = FALSE
            /\ Len(extracted.vtrans) = frames /\ Len(extracted.vrot) = frames
            /\ vtrans_prev_profile = extracted.vtrans[frames]
            /\ vrot_prev_profile = extracted.vrot[frames]
            /\ vtrans_profile = extracted.vtrans[frames]
            /\ vrot_profile = extracted.vrot[frames]
    /\ (pc = "convert_vrot" /\ frames >= 1) =>
            /\ odo.data = extracted.vtrans[frames + 1]
            /\ odo.olddata = extracted.vtrans[frames]
    /\ (pc = "idle" /\ frames >= 2) =>
            /\ odo.data = extracted.vrot[frames]
            /\ odo.olddata = extracted.vrot[frames - 1]

\* The second call has returned, its frame differed from the first, and
\* neither was black.
C7_Witness ==
    /\ pc = "idle" /\ frames = 2
    /\ extracted.vrot[1] # extracted.vrot[2]
    /\ extracted.vtrans[1] # extracted.vtrans[2]
    /\ odo.olddata # Zeros(Len(odo.olddata))
    /\ Len(odo.olddata) > 0

\* C9: in every visual_odo call of an instance with valid regions, every
\* offset the two scans evaluate is below the profile length, so that the
\* divisor cwl - offset is positive.
C9_OffsetsBelowLength ==
    LET Positive(width) == \A offset \in 0..(slen - 1) : width - offset > 0
    IN  /\ (pc = "odo_vtrans" /\ ValidRegions) => Positive(UShort(Len(vtrans_profile)))
        /\ (pc = "odo_vrot" /\ ValidRegions) => Positive(UShort(Len(vrot_profile)))

\* What one step of on_image may touch.
C10_Step ==
    /\ pc \in {"convert_vtrans", "odo_vtrans"} =>
            /\ vrot_profile' = vrot_profile
            /\ vrot_prev_profile' = vrot_prev_profile
            /\ out'.vrot_rads = out.vrot_rads
    /\ pc \in {"convert_vrot", "odo_vrot"} =>
            /\ vtrans_profile' = vtrans_profile
            /\ vtrans_prev_profile' = vtrans_prev_profile
            /\ out'.vtrans_ms = out.vtrans_ms
    /\ (pc = "odo_vtrans" /\ pc' = "convert_vrot") =>
            out'.vtrans_ms =
                TranslationSpeed(
                    Search(vtrans_profile, UShort(Len(vtrans_profile)),
                           vtrans_prev_profile).mindiff,
                    VTRANS_SCALING, VTRANS_MAX)
    /\ (pc = "odo_vrot" /\ pc' = "idle") =>
            out'.vrot_rads =
                RotationRate(
                    Search(vrot_profile, UShort(Len(vrot_profile)),
                           vrot_prev_profile).minoffset,
                    CAMERA_FOV_DEG, IMAGE_WIDTH, CAMERA_HZ)

\* C10: the translation pass (extraction and estimate) leaves the rotation
\* buffers and the rotation rate alone and writes a speed that is a function
\* of the translation profiles; the rotation pass leaves the translation
\* buffers and the speed alone and writes a rate that is a function of the
\* rotation profiles.
C10_PassesIndependent == [][C10_Step]_vars

\* A call has returned whose rotation pass computed, into dummy, another
\* speed than the one the caller holds.
C10_Witness ==
    /\ pc = "idle" /\ frames >= 1
    /\ out.dummy # Unset
    /\ out.dummy # out.vtrans_ms
    /\ out.vrot_rads # Dbl(0)

----------------------------------------------------------------------------
(* Properties of visual_odo (SpecOdo).                                     *)

\* The call returned; odo holds its arguments and its final locals.
OdoReturned == pc = "odo_returned"

OdoLength == Len(odo.data)

\* current[i] = previous[i + k] wherever both exist.
LeftShift(k) == \A i \in 1..(OdoLength - k) : odo.data[i] = odo.olddata[i + k]

\* current[i + k] = previous[i] wherever both exist.
RightShift(k) == \A i \in 1..(OdoLength - k) : odo.data[i + k] = odo.olddata[i]

\* C4 as claimed: a current profile that is the previous one moved k columns
\* to the left makes -k win, one moved k columns to the right makes +k win,
\* and the minimum mean difference is 0.
C4_ShiftRecovered ==
    OdoReturned =>
        \A k \in 0..(slen - 1) :
            /\ LeftShift(k) => (odo.minoffset = -k /\ odo.mindiff = Dbl(0))
            /\ RightShift(k) => (odo.minoffset = k /\ odo.mindiff = Dbl(0))

\* The candidate of the first scan at offset j is 0: its window matches, or
\* it is empty (j beyond the profile).
ZeroNegative(j) == (j < OdoLength /\ LeftShift(j)) \/ j > OdoLength

ZeroPositive(j) == (j < OdoLength /\ RightShift(j)) \/ j > OdoLength

\* The first candidate in scan order that is 0.
FirstZero ==
    IF \E j \in 0..(slen - 1) : ZeroNegative(j)
    THEN -(CHOOSE j \in 0..(slen - 1) :
              ZeroNegative(j) /\ \A i \in 0..(j - 1) : ~ZeroNegative(i))
    ELSE CHOOSE j \in 0..(slen - 1) :
              ZeroPositive(j) /\ \A i \in 0..(j - 1) : ~ZeroPositive(i)

ScenarioPrevious == odo.olddata = [i \in 1..ScenarioWidth |-> Ratio(1, 2)]

\* C4, amended: for a shift by k < min(S, L) in either direction the
\* minimum mean difference is 0 and the winner is the first candidate in
\* scan order (first scan 0..S-1, then second scan 0..S-1) whose difference
\* is 0; in the scenario (80 entries of 0.5, moved right by 3) that is +3
\* exactly when the third entry of the current profile is not 0.5.
C4_ShiftGivesFirstZeroCandidate ==
    OdoReturned =>
        /\ \A k \in 0..(slen - 1) :
                (k < OdoLength /\ (LeftShift(k) \/ RightShift(k))) =>
                    (odo.mindiff = Dbl(0) /\ odo.minoffset = FirstZero)
        /\ (ScenarioPrevious /\ RightShift(3)) =>
                (odo.minoffset = 3 <=> odo.data[3] # Ratio(1, 2))

\* The scenario with its first three entries off 0.5: +3 wins.
C4_Witness ==
    /\ OdoReturned
    /\ ScenarioPrevious
    /\ RightShift(3)
    /\ odo.data[3] # Ratio(1, 2)
    /\ odo.minoffset = 3
    /\ odo.mindiff = Dbl(0)

\* C5: identical current and previous profiles, of any length, give the
\* minimum 0 at offset 0, translation speed 0 and rotation rate 0.
C5_IdenticalProfiles ==
    (OdoReturned /\ odo.data = odo.olddata) =>
        /\ odo.mindiff = Dbl(0)
        /\ odo.minoffset = 0
        /\ out.vtrans_ms = Dbl(0)
        /\ out.vrot_rads = Dbl(0)

\* Identical profiles that are not constant and shorter than the window.
C5_Witness ==
    /\ OdoReturned
    /\ odo.data = odo.olddata
    /\ OdoLength < slen
    /\ \E i, j \in DOMAIN odo.data : odo.data[i] # odo.data[j]

\* The candidates of the call in scan order: 1..slen are the first scan
\* (offsets 0..slen-1, recorded negated), slen+1..2*slen the second.
ScanOrder == 1..(2 * slen)

OffsetAt(i) == IF i <= slen THEN -(i - 1) ELSE i - slen - 1

Candidates ==
    LET p == Prepared(odo.data, UShort(OdoLength), odo.olddata)
    IN  [i \in ScanOrder |->
            IF i <= slen THEN Candidate(p, 0, i - 1, i - 1)
            ELSE Candidate(p, i - slen - 1, 0, i - slen - 1)]

\* The winner is a candidate and no candidate is below it.
AttainsMinimum(c) ==
    /\ \E i \in ScanOrder : c[i] = odo.mindiff /\ OffsetAt(i) = odo.minoffset
    /\ \A i \in ScanOrder : ~Lt(c[i], odo.mindiff)

\* C8 as claimed: the winner attains the minimum, and among the candidates
\* that tie for it the one of smallest magnitude wins, the negative one
\* before the positive one of equal magnitude.
C8_SmallestMagnitudeWins ==
    OdoReturned =>
        \E c \in {Candidates} :
            /\ AttainsMinimum(c)
            /\ \A i \in ScanOrder :
                    c[i] = odo.mindiff =>
                        /\ Abs(odo.minoffset) <= Abs(OffsetAt(i))
                        /\ Abs(odo.minoffset) = Abs(OffsetAt(i)) =>
                                odo.minoffset <= OffsetAt(i)

\* C8, amended: the winner attains the minimum, and among the candidates
\* that tie for it the first in scan order wins: every candidate of the
\* first scan (offsets 0, -1, ..., -(S-1)) before every candidate of the
\* second, and within a scan the smaller offset first.
C8_FirstInScanOrderWins ==
    OdoReturned =>
        \E c \in {Candidates} :
            /\ AttainsMinimum(c)
            /\ \E i \in ScanOrder :
                    /\ c[i] = odo.mindiff
                    /\ \A j \in 1..(i - 1) : c[j] # odo.mindiff
                    /\ OffsetAt(i) = odo.minoffset

\* A tie between -5 and +2 that -5 wins.
C8_Witness ==
    /\ OdoReturned
    /\ OdoLength >= slen
    /\ odo.minoffset = -5
    /\ \E c \in {Candidates} : c[slen + 3] = odo.mindiff /\ c[6] = odo.mindiff

----------------------------------------------------------------------------
(* Properties of convert_view_to_view_template (SpecView).                 *)

RECURSIVE RowsSum(_, _, _)
\* The samples of column x in the rows y_from..y_to of the frame in view.
RowsSum(x, y_from, y_to) ==
    IF y_from > y_to THEN 0
    ELSE (IF view.greyscale
          THEN view.data[x + y_from * ViewW + 1]
          ELSE view.data[3 * (x + y_from * ViewW) + 1]
               + view.data[3 * (x + y_from * ViewW) + 2]
               + view.data[3 * (x + y_from * ViewW) + 3])
         + RowsSum(x, y_from + 1, y_to)

\* C3: for a region inside the frame the call writes exactly x_max - x_min
\* entries; each lies in [0, 1] and is the sum of the samples of its block
\* (one column, the rows of the region) over 255 (greyscale) or 255 * 3
\* (RGB) and over the number of pixels of the block.
C3_ProfileEntries ==
    pc = "view_returned" =>
        LET r == VtransRegion
            width == r.x_max - r.x_min
            pixels == r.y_max - r.y_min
            full == IF view.greyscale THEN 255 ELSE 765
        IN  /\ Len(vtrans_profile) = width + 1
            /\ vtrans_profile[width + 1] = Stale
            /\ \A i \in 1..width :
                    /\ IsFinite(vtrans_profile[i])
                    /\ Le(Dbl(0), vtrans_profile[i])
                    /\ Le(vtrans_profile[i], Dbl(1))
                    /\ vtrans_profile[i]
                         = Ratio(RowsSum(r.x_min + i - 1, r.y_min, r.y_max - 1), full * pixels)

\* An RGB frame gave an entry of exactly 1 and an entry strictly inside
\* (0, 1) over more than one row.
C3_Witness ==
    /\ pc = "view_returned"
    /\ ~view.greyscale
    /\ VTRANS_IMAGE_Y_MAX - VTRANS_IMAGE_Y_MIN > 1
    /\ \E i \in 1..(VTRANS_IMAGE_X_MAX - VTRANS_IMAGE_X_MIN) :
            Lt(Dbl(0), vtrans_profile[i]) /\ Lt(vtrans_profile[i], Dbl(1))

=============================================================================
